---- MODULE Spec2Model ----
(***************************************************************************)
(* The graph node classes of glow/Graph/Nodes.h as a state machine.        *)
(*                                                                         *)
(* The state is one module: its table of interned types and its list of    *)
(* nodes in construction order.  A node is a record holding the fields of  *)
(* its class; a Node* is the position of the node in the list and a        *)
(* TypeRef is the position of the type in the table.  There is one action  *)
(* per constructor.  The getters and the classof tests are operators.      *)
(***************************************************************************)
EXTENDS Integers, Sequences, FiniteSets, TLC

VARIABLES
  types,   \* the module's interned type descriptors; a TypeRef indexes it
  nodes,   \* the nodes constructed so far; a Node* indexes it
  given,   \* history: for each node, the arguments its constructor received
  last     \* the last call made and its outcome

vars == <<types, nodes, given, last>>

-----------------------------------------------------------------------------
(* Bounds of the model.                                                    *)

MaxNodes == 3

MaxConcat == 2

-----------------------------------------------------------------------------
(* Inputs the callers draw from.                                           *)

\* The types the front-end has interned before it builds nodes.
CallerTypes ==
  << [elemK |-> "FloatTy", dims |-> <<1, 4, 4, 2>>],
     [elemK |-> "FloatTy", dims |-> <<2, 3>>],
     [elemK |-> "FloatTy", dims |-> <<2, 5>>],
     [elemK |-> "IndexTy", dims |-> <<3, 2>>] >>

Kernels == {2}
Strides == {1, 2}
Pads == {0, 1}
Depths == {3}
Floats == {0}
InitKinds == {"Extern"}
PoolOpKinds == {"Max", "Avg"}
ArithmeticOpKinds == {"Add", "Mul"}
Shuffles == {<<0, 1>>, <<1, 0>>, <<0, 0>>, <<0, 3, 1, 2>>}
ReshapeDims == {<<6>>, <<3, 2>>, <<5, 5>>}
ConcatDims == {0, 1}
HalfWindowSizes == {2}

\* The pointers a caller can pass: the nodes that exist.
NodeRefs == 1..Len(nodes)

\* The values an uninitialized Node* field can hold: null (0), or the address
\* of any node slot of the module, used or not yet used.
Indeterminate == 0..MaxNodes

-----------------------------------------------------------------------------
(* Kinds.                                                                  *)

Kinds ==
  {"WeightVarKind", "ConvolutionInstKind", "PoolInstKind",
   "FullyConnectedInstKind", "ReluInstKind", "SigmoidInstKind",
   "TanhInstKind", "SoftMaxInstKind", "RegressionInstKind",
   "TransposeInstKind", "ReshapeInstKind", "ConcatInstKind",
   "BatchNormalizationInstKind", "ArithmeticInstKind",
   "LocalResponseNormalizationInstKind"}

-----------------------------------------------------------------------------
(* The Node base and the module's type table (glow/Graph/Node.h and the    *)
(* module are outside this file; modelled from the specification).         *)

\* Node(kind, Ty, name): the base part of every node.
Node(kind, Ty) == [kind |-> kind, type |-> Ty]

\* in->getType()
getType(n) == nodes[n].type

\* The handles of descriptor d in table tbl (at most one: the table holds no
\* duplicates).
findType(tbl, d) == {h \in 1..Len(tbl) : tbl[h] = d}

\* M.uniqueType(elemK, dims): the table after interning d, and d's handle.
uniqueTypeTable(tbl, d) == IF findType(tbl, d) # {} THEN tbl ELSE Append(tbl, d)

uniqueTypeRef(tbl, d) ==
  IF findType(tbl, d) # {} THEN CHOOSE h \in findType(tbl, d) : TRUE
  ELSE Len(tbl) + 1

-----------------------------------------------------------------------------
(* Constructors without shape inference: the result type is a TypeRef the  *)
(* constructor is handed or reads from an operand.                         *)

Variable(Ty, initKind, val) ==
  Node("WeightVarKind", Ty) @@ [val_ |-> val, initKind_ |-> initKind]

ReluNode(in) == Node("ReluInstKind", getType(in)) @@ [in_ |-> in]

SigmoidNode(in) == Node("SigmoidInstKind", getType(in)) @@ [in_ |-> in]

TanhNode(in) == Node("TanhInstKind", getType(in)) @@ [in_ |-> in]

SoftMaxNode(in, selected) ==
  Node("SoftMaxInstKind", getType(in)) @@ [in_ |-> in, selected_ |-> selected]

RegressionNode(in, expected) ==
  Node("RegressionInstKind", getType(in)) @@ [in_ |-> in, expected_ |-> expected]

TransposeNode(in, shuffle) ==
  Node("TransposeInstKind", getType(in)) @@ [in_ |-> in, shuffle_ |-> shuffle]

ReshapeNode(in, dims) ==
  Node("ReshapeInstKind", getType(in)) @@ [in_ |-> in, dims_ |-> dims]

BatchNormalizationNode_scaleType(in, scale, bias, mean, var, channelIdx, epsilon, momentum) ==
  Node("BatchNormalizationInstKind", getType(scale)) @@
    [in_ |-> in, scale_ |-> scale, bias_ |-> bias, mean_ |-> mean, var_ |-> var,
     channelIdx_ |-> channelIdx, epsilon_ |-> epsilon, momentum_ |-> momentum]

BatchNormalizationNode(in, scale, bias, mean, var, channelIdx, epsilon, momentum) ==
  Node("BatchNormalizationInstKind", getType(in)) @@
    [in_ |-> in, scale_ |-> scale, bias_ |-> bias, mean_ |-> mean, var_ |-> var,
     channelIdx_ |-> channelIdx, epsilon_ |-> epsilon, momentum_ |-> momentum]

ArithmeticNode(LHS, RHS, kind) ==
  Node("ArithmeticInstKind", getType(LHS)) @@
    [LHS_ |-> LHS, RHS_ |-> RHS, kind_ |-> kind]

\* The initializer list sets in_, halfWindowSize_, alpha_, beta_ and k_ and
\* leaves scale_ out: the field keeps whatever its storage held (garbage).
LocalResponseNormalizationNode(in, scale, halfWindowSize, alpha, beta, k, garbage) ==
  Node("LocalResponseNormalizationInstKind", getType(in)) @@
    [in_ |-> in, scale_ |-> garbage, halfWindowSize_ |-> halfWindowSize,
     alpha_ |-> alpha, beta_ |-> beta, k_ |-> k]

-----------------------------------------------------------------------------
(* Shape inference.  The getOutputType routines are declared in Nodes.h    *)
(* and defined outside it; their bodies follow the operator catalogue of   *)
(* the specification.  Each returns the outcome, the module's type table   *)
(* after interning the result, and the result's TypeRef.                   *)

Typed(desc) ==
  [err |-> "None", M |-> uniqueTypeTable(types, desc), Ty |-> uniqueTypeRef(types, desc)]

Failed(err) == [err |-> err, M |-> types, Ty |-> 0]

\* One spatial extent of a convolution or pool result.
OutDim(i, pad, kernel, stride) == (i + 2 * pad - kernel) \div stride + 1

Integral(i, pad, kernel, stride) ==
  i + 2 * pad >= kernel /\ (i + 2 * pad - kernel) % stride = 0

ConvolutionNode_getOutputType(Ty, pad, kernel, stride, depth) ==
  LET d == types[Ty].dims IN
  IF Len(d) # 4 \/ stride = 0 THEN Failed("InvalidOperand")
  ELSE IF ~Integral(d[2], pad, kernel, stride) \/ ~Integral(d[3], pad, kernel, stride)
    THEN Failed("ShapeMismatch")
  ELSE Typed([elemK |-> types[Ty].elemK,
              dims |-> <<d[1], OutDim(d[2], pad, kernel, stride),
                         OutDim(d[3], pad, kernel, stride), depth>>])

PoolNode_getOutputType(Ty, pad, kernel, stride) ==
  LET d == types[Ty].dims IN
  IF Len(d) # 4 \/ stride = 0 THEN Failed("InvalidOperand")
  ELSE IF ~Integral(d[2], pad, kernel, stride) \/ ~Integral(d[3], pad, kernel, stride)
    THEN Failed("ShapeMismatch")
  ELSE Typed([elemK |-> types[Ty].elemK,
              dims |-> <<d[1], OutDim(d[2], pad, kernel, stride),
                         OutDim(d[3], pad, kernel, stride), d[4]>>])

FullyConnectedNode_getOutputType(Ty, depth) ==
  LET d == types[Ty].dims IN
  IF Len(d) # 2 THEN Failed("InvalidOperand")
  ELSE Typed([elemK |-> types[Ty].elemK, dims |-> <<d[1], depth>>])

\* The dims of the i-th input of a concat.
inputDims(inputs, i) == types[getType(inputs[i])].dims

RECURSIVE sumExtents(_, _, _)
sumExtents(inputs, axis, i) ==
  IF i > Len(inputs) THEN 0
  ELSE inputDims(inputs, i)[axis] + sumExtents(inputs, axis, i + 1)

\* dimension counts axes from 0; a dims sequence is indexed from 1.
ConcatNode_getOutputType(inputs, dimension) ==
  LET d0 == inputDims(inputs, 1) IN
  IF dimension >= Len(d0) THEN Failed("InvalidOperand")
  ELSE IF \E i \in 1..Len(inputs) :
            \/ Len(inputDims(inputs, i)) # Len(d0)
            \/ \E a \in 1..Len(d0) :
                 a # dimension + 1 /\ inputDims(inputs, i)[a] # d0[a]
    THEN Failed("ShapeMismatch")
  ELSE Typed([elemK |-> types[getType(inputs[1])].elemK,
              dims |-> [d0 EXCEPT ![dimension + 1] =
                          sumExtents(inputs, dimension + 1, 1)]])

-----------------------------------------------------------------------------
(* Constructors with shape inference.  Each returns the outcome of the     *)
(* base initializer (the getOutputType call made with the constructor's    *)
(* parameters) and the node built when it succeeds.                        *)

Built(out, kind, fields) ==
  [err |-> out.err, M |-> out.M,
   node |-> IF out.err = "None" THEN Node(kind, out.Ty) @@ fields ELSE <<>>]

ConvolutionNode_ctorOrder(in, filter, bias, kernel, stride, pad, depth) ==
  Built(ConvolutionNode_getOutputType(getType(in), kernel, stride, pad, depth),
        "ConvolutionInstKind",
        [in_ |-> in, filter_ |-> filter, bias_ |-> bias, kernel_ |-> kernel,
         stride_ |-> stride, pad_ |-> pad, depth_ |-> depth])

ConvolutionNode(in, filter, bias, kernel, stride, pad, depth) ==
  Built(ConvolutionNode_getOutputType(getType(in), pad, kernel, stride, depth),
        "ConvolutionInstKind",
        [in_ |-> in, filter_ |-> filter, bias_ |-> bias, kernel_ |-> kernel,
         stride_ |-> stride, pad_ |-> pad, depth_ |-> depth])

PoolNode(in, kind, kernel, stride, pad) ==
  Built(PoolNode_getOutputType(getType(in), pad, kernel, stride),
        "PoolInstKind",
        [in_ |-> in, kernel_ |-> kernel, stride_ |-> stride, pad_ |-> pad,
         kind_ |-> kind])

FullyConnectedNode(in, filter, bias, depth) ==
  Built(FullyConnectedNode_getOutputType(getType(in), depth),
        "FullyConnectedInstKind",
        [in_ |-> in, filter_ |-> filter, bias_ |-> bias, depth_ |-> depth])

ConcatNode_firstAxis(src, dim) ==
  Built(ConcatNode_getOutputType(src, 0), "ConcatInstKind",
        [in_ |-> src, dim_ |-> dim])

ConcatNode(src, dim) ==
  Built(ConcatNode_getOutputType(src, dim), "ConcatInstKind",
        [in_ |-> src, dim_ |-> dim])

\* A constructor that cannot fail.
Plain(node) == [err |-> "None", M |-> types, node |-> node]

-----------------------------------------------------------------------------
(* The state machine: the module after its types were interned, and one    *)
(* step per constructor call.                                              *)

Init ==
  /\ types = CallerTypes
  /\ nodes = << >>
  /\ given = << >>
  /\ last = [op |-> "Module", err |-> "None"]

\* A failed construction is fatal to the caller: nothing is built after it.
\* The bound of the model is the number of nodes the module may hold.
Room == last.err = "None" /\ Len(nodes) < MaxNodes

\* What `last` keeps of a call: the constructor and the outcome, and for a
\* concat the inputs and the axis it was asked to join.
Outcome(call, err) ==
  IF call.op = "ConcatNode"
    THEN [op |-> call.op, err |-> err, src |-> call.src, dim |-> call.dim]
    ELSE [op |-> call.op, err |-> err]

\* `new K(...)` in the module: the base initializer may intern a type; on
\* success the node joins the module's list, on failure no node exists.
Construct(r, call) ==
  /\ types' = r.M
  /\ last' = Outcome(call, r.err)
  /\ IF r.err = "None"
       THEN nodes' = Append(nodes, r.node) /\ given' = Append(given, call)
       ELSE UNCHANGED <<nodes, given>>

NewVariable ==
  /\ Room
  /\ \E Ty \in 1..Len(types), initKind \in InitKinds, val \in Floats :
    Construct(Plain(Variable(Ty, initKind, val)), [op |-> "Variable", Ty |-> Ty])

NewConvolutionNode ==
  /\ Room
  /\ \E in \in NodeRefs, filter \in NodeRefs, bias \in NodeRefs,
     kernel \in Kernels, stride \in Strides, pad \in Pads, depth \in Depths :
    Construct(ConvolutionNode(in, filter, bias, kernel, stride, pad, depth),
              [op |-> "ConvolutionNode", in |-> in, filter |-> filter,
               bias |-> bias, kernel |-> kernel, stride |-> stride,
               pad |-> pad, depth |-> depth])

NewPoolNode ==
  /\ Room
  /\ \E in \in NodeRefs, kind \in PoolOpKinds, kernel \in Kernels,
     stride \in Strides, pad \in Pads :
    Construct(PoolNode(in, kind, kernel, stride, pad),
              [op |-> "PoolNode", in |-> in, kernel |-> kernel,
               stride |-> stride, pad |-> pad])

NewFullyConnectedNode ==
  /\ Room
  /\ \E in \in NodeRefs, filter \in NodeRefs, bias \in NodeRefs, depth \in Depths :
    Construct(FullyConnectedNode(in, filter, bias, depth),
              [op |-> "FullyConnectedNode", in |-> in, filter |-> filter,
               bias |-> bias, depth |-> depth])

NewReluNode ==
  /\ Room
  /\ \E in \in NodeRefs :
    Construct(Plain(ReluNode(in)), [op |-> "ReluNode", in |-> in])

NewSigmoidNode ==
  /\ Room
  /\ \E in \in NodeRefs :
    Construct(Plain(SigmoidNode(in)), [op |-> "SigmoidNode", in |-> in])

NewTanhNode ==
  /\ Room
  /\ \E in \in NodeRefs :
    Construct(Plain(TanhNode(in)), [op |-> "TanhNode", in |-> in])

NewSoftMaxNode ==
  /\ Room
  /\ \E in \in NodeRefs, selected \in NodeRefs :
    Construct(Plain(SoftMaxNode(in, selected)),
              [op |-> "SoftMaxNode", in |-> in, selected |-> selected])

NewRegressionNode ==
  /\ Room
  /\ \E in \in NodeRefs, expected \in NodeRefs :
    Construct(Plain(RegressionNode(in, expected)),
              [op |-> "RegressionNode", in |-> in, expected |-> expected])

NewTransposeNode ==
  /\ Room
  /\ \E in \in NodeRefs, shuffle \in Shuffles :
    Construct(Plain(TransposeNode(in, shuffle)),
              [op |-> "TransposeNode", in |-> in, shuffle |-> shuffle])

NewReshapeNode ==
  /\ Room
  /\ \E in \in NodeRefs, dims \in ReshapeDims :
    Construct(Plain(ReshapeNode(in, dims)),
              [op |-> "ReshapeNode", in |-> in, dims |-> dims])

NewConcatNode ==
  /\ Room
  /\ \E len \in 1..MaxConcat :
    \E src \in [1..len -> NodeRefs], dim \in ConcatDims :
      Construct(ConcatNode(src, dim),
                [op |-> "ConcatNode", src |-> src, dim |-> dim])

NewBatchNormalizationNode ==
  /\ Room
  /\ \E in \in NodeRefs, scale \in NodeRefs, bias \in NodeRefs,
     mean \in NodeRefs, var \in NodeRefs, epsilon \in Floats, momentum \in Floats :
    Construct(Plain(BatchNormalizationNode(in, scale, bias, mean, var,
                                           Len(types[getType(in)].dims) - 1,
                                           epsilon, momentum)),
              [op |-> "BatchNormalizationNode", in |-> in, scale |-> scale,
               bias |-> bias, mean |-> mean, var |-> var])

NewArithmeticNode ==
  /\ Room
  /\ \E LHS \in NodeRefs, RHS \in NodeRefs, kind \in ArithmeticOpKinds :
    Construct(Plain(ArithmeticNode(LHS, RHS, kind)),
              [op |-> "ArithmeticNode", LHS |-> LHS, RHS |-> RHS])

\* scale_ is read before anything wrote it: every value it can hold is an
\* outcome.
NewLocalResponseNormalizationNode ==
  /\ Room
  /\ \E in \in NodeRefs, scale \in NodeRefs, halfWindowSize \in HalfWindowSizes,
     alpha \in Floats, beta \in Floats, k \in Floats, garbage \in Indeterminate :
    Construct(Plain(LocalResponseNormalizationNode(in, scale, halfWindowSize,
                                                   alpha, beta, k, garbage)),
              [op |-> "LocalResponseNormalizationNode", in |-> in,
               scale |-> scale])

Next ==
  \/ NewVariable
  \/ NewConvolutionNode
  \/ NewPoolNode
  \/ NewFullyConnectedNode
  \/ NewReluNode
  \/ NewSigmoidNode
  \/ NewTanhNode
  \/ NewSoftMaxNode
  \/ NewRegressionNode
  \/ NewTransposeNode
  \/ NewReshapeNode
  \/ NewConcatNode
  \/ NewBatchNormalizationNode
  \/ NewArithmeticNode
  \/ NewLocalResponseNormalizationNode

Spec == Init /\ [][Next]_vars

-----------------------------------------------------------------------------
(* The views of the machine the properties are stated on: the constructors *)
(* with shape inference, and the constructors that pass the input's type   *)
(* on.                                                                     *)

NextShape ==
  \/ NewVariable
  \/ NewConvolutionNode
  \/ NewPoolNode
  \/ NewFullyConnectedNode
  \/ NewConcatNode

SpecShape == Init /\ [][NextShape]_vars

NextPointwise ==
  \/ NewVariable
  \/ NewReluNode
  \/ NewSigmoidNode
  \/ NewTanhNode
  \/ NewSoftMaxNode
  \/ NewRegressionNode
  \/ NewBatchNormalizationNode
  \/ NewLocalResponseNormalizationNode

SpecPointwise == Init /\ [][NextPointwise]_vars

-----------------------------------------------------------------------------
(* Getters.  Each reads one field of a node.                               *)

\* k->getKind() of the Kinded base.
getKind(n) == n.kind

getInput(n) == n.in_
getFilter(n) == n.filter_
getBias(n) == n.bias_
getKernel(n) == n.kernel_
getStride(n) == n.stride_
getPad(n) == n.pad_
getDepth(n) == n.depth_
getSelected(n) == n.selected_
getExpected(n) == n.expected_
getShuffle(n) == n.shuffle_
getDims(n) == n.dims_
getInputs(n) == n.in_
getDim(n) == n.dim_
getScale(n) == n.scale_
getMean(n) == n.mean_
getVar(n) == n.var_
getLHS(n) == n.LHS_
getRHS(n) == n.RHS_

\* The operands of a node, in the order its class declares them, as its
\* getters return them.
operandList(n) ==
  CASE getKind(n) = "WeightVarKind" -> << >>
    [] getKind(n) \in {"ConvolutionInstKind", "FullyConnectedInstKind"} ->
         <<getInput(n), getFilter(n), getBias(n)>>
    [] getKind(n) \in {"PoolInstKind", "ReluInstKind", "SigmoidInstKind",
                       "TanhInstKind", "TransposeInstKind", "ReshapeInstKind"} ->
         <<getInput(n)>>
    [] getKind(n) = "SoftMaxInstKind" -> <<getInput(n), getSelected(n)>>
    [] getKind(n) = "RegressionInstKind" -> <<getInput(n), getExpected(n)>>
    [] getKind(n) = "ConcatInstKind" -> getInputs(n)
    [] getKind(n) = "BatchNormalizationInstKind" ->
         <<getInput(n), getScale(n), getBias(n), getMean(n), getVar(n)>>
    [] getKind(n) = "ArithmeticInstKind" -> <<getLHS(n), getRHS(n)>>
    [] getKind(n) = "LocalResponseNormalizationInstKind" ->
         <<getInput(n), getScale(n)>>

operands(n) == {operandList(n)[p] : p \in 1..Len(operandList(n))}

\* The operands a constructor call passed, in the same order.
givenList(call) ==
  CASE call.op = "Variable" -> << >>
    [] call.op \in {"ConvolutionNode", "FullyConnectedNode"} ->
         <<call.in, call.filter, call.bias>>
    [] call.op \in {"PoolNode", "ReluNode", "SigmoidNode", "TanhNode",
                    "TransposeNode", "ReshapeNode"} -> <<call.in>>
    [] call.op = "SoftMaxNode" -> <<call.in, call.selected>>
    [] call.op = "RegressionNode" -> <<call.in, call.expected>>
    [] call.op = "ConcatNode" -> call.src
    [] call.op = "BatchNormalizationNode" ->
         <<call.in, call.scale, call.bias, call.mean, call.var>>
    [] call.op = "ArithmeticNode" -> <<call.LHS, call.RHS>>
    [] call.op = "LocalResponseNormalizationNode" -> <<call.in, call.scale>>

-----------------------------------------------------------------------------
(* The is-a tests.  Twelve classes define classof; ReluNode, SigmoidNode   *)
(* and TanhNode define none.                                               *)

Variable_classof(k) == getKind(k) = "WeightVarKind"
ConvolutionNode_classof(k) == getKind(k) = "ConvolutionInstKind"
PoolNode_classof(k) == getKind(k) = "PoolInstKind"
FullyConnectedNode_classof(k) == getKind(k) = "FullyConnectedInstKind"
SoftMaxNode_classof(k) == getKind(k) = "SoftMaxInstKind"
RegressionNode_classof(k) == getKind(k) = "RegressionInstKind"
TransposeNode_classof(k) == getKind(k) = "TransposeInstKind"
ReshapeNode_classof(k) == getKind(k) = "ReshapeInstKind"
ConcatNode_classof(k) == getKind(k) = "ConcatInstKind"
BatchNormalizationNode_classof(k) == getKind(k) = "BatchNormalizationInstKind"
ArithmeticNode_classof(k) == getKind(k) = "ArithmeticInstKind"
LocalResponseNormalizationNode_classof(k) ==
  getKind(k) = "LocalResponseNormalizationInstKind"

Classes ==
  {"Variable", "ConvolutionNode", "PoolNode", "FullyConnectedNode", "ReluNode",
   "SigmoidNode", "TanhNode", "SoftMaxNode", "RegressionNode", "TransposeNode",
   "ReshapeNode", "ConcatNode", "BatchNormalizationNode", "ArithmeticNode",
   "LocalResponseNormalizationNode"}

\* isa<K>(k) is K::classof(k).  For a class without a classof of its own the
\* name finds whatever test the base supplies; that test is one function of
\* the node for all three classes, here the set of kinds it accepts.
isa(K, k, inherited) ==
  CASE K = "Variable" -> Variable_classof(k)
    [] K = "ConvolutionNode" -> ConvolutionNode_classof(k)
    [] K = "PoolNode" -> PoolNode_classof(k)
    [] K = "FullyConnectedNode" -> FullyConnectedNode_classof(k)
    [] K = "SoftMaxNode" -> SoftMaxNode_classof(k)
    [] K = "RegressionNode" -> RegressionNode_classof(k)
    [] K = "TransposeNode" -> TransposeNode_classof(k)
    [] K = "ReshapeNode" -> ReshapeNode_classof(k)
    [] K = "ConcatNode" -> ConcatNode_classof(k)
    [] K = "BatchNormalizationNode" -> BatchNormalizationNode_classof(k)
    [] K = "ArithmeticNode" -> ArithmeticNode_classof(k)
    [] K = "LocalResponseNormalizationNode" ->
         LocalResponseNormalizationNode_classof(k)
    [] K \in {"ReluNode", "SigmoidNode", "TanhNode"} -> getKind(k) \in inherited

-----------------------------------------------------------------------------
(* Replace-all-uses of the Node base (outside Nodes.h; modelled from the   *)
(* specification): walk every node of the module and point each operand   *)
(* that is A at B; legal only when the two types match.                    *)

replaceOperand(o, A, B) == IF o = A THEN B ELSE o

rewired_firstOperand(n, A, B) ==
  CASE getKind(n) = "WeightVarKind" -> n
    [] getKind(n) = "ConcatInstKind" ->
         [n EXCEPT !.in_ = [@ EXCEPT ![1] = replaceOperand(@, A, B)]]
    [] getKind(n) = "ArithmeticInstKind" ->
         [n EXCEPT !.LHS_ = replaceOperand(@, A, B)]
    [] OTHER -> [n EXCEPT !.in_ = replaceOperand(@, A, B)]

rewired(n, A, B) ==
  CASE getKind(n) = "WeightVarKind" -> n
    [] getKind(n) \in {"ConvolutionInstKind", "FullyConnectedInstKind"} ->
         [n EXCEPT !.in_ = replaceOperand(@, A, B),
                   !.filter_ = replaceOperand(@, A, B),
                   !.bias_ = replaceOperand(@, A, B)]
    [] getKind(n) \in {"PoolInstKind", "ReluInstKind", "SigmoidInstKind",
                       "TanhInstKind", "TransposeInstKind", "ReshapeInstKind"} ->
         [n EXCEPT !.in_ = replaceOperand(@, A, B)]
    [] getKind(n) = "SoftMaxInstKind" ->
         [n EXCEPT !.in_ = replaceOperand(@, A, B),
                   !.selected_ = replaceOperand(@, A, B)]
    [] getKind(n) = "RegressionInstKind" ->
         [n EXCEPT !.in_ = replaceOperand(@, A, B),
                   !.expected_ = replaceOperand(@, A, B)]
    [] getKind(n) = "ConcatInstKind" ->
         [n EXCEPT !.in_ = [p \in 1..Len(@) |-> replaceOperand(@[p], A, B)]]
    [] getKind(n) = "BatchNormalizationInstKind" ->
         [n EXCEPT !.in_ = replaceOperand(@, A, B),
                   !.scale_ = replaceOperand(@, A, B),
                   !.bias_ = replaceOperand(@, A, B),
                   !.mean_ = replaceOperand(@, A, B),
                   !.var_ = replaceOperand(@, A, B)]
    [] getKind(n) = "ArithmeticInstKind" ->
         [n EXCEPT !.LHS_ = replaceOperand(@, A, B),
                   !.RHS_ = replaceOperand(@, A, B)]
    [] getKind(n) = "LocalResponseNormalizationInstKind" ->
         [n EXCEPT !.in_ = replaceOperand(@, A, B),
                   !.scale_ = replaceOperand(@, A, B)]

replace_all_uses ==
  /\ last.err = "None"
  /\ \E A \in NodeRefs, B \in NodeRefs :
       LET legal == getType(A) = getType(B) IN
       /\ last' = [op |-> "replace_all_uses", A |-> A, B |-> B,
                   err |-> IF legal THEN "None" ELSE "TypeMismatch"]
       /\ nodes' = IF legal
                     THEN [i \in 1..Len(nodes) |-> rewired(nodes[i], A, B)]
                     ELSE nodes
       /\ UNCHANGED <<types, given>>

NextRewrite ==
  \/ NewVariable
  \/ NewReluNode
  \/ NewConvolutionNode
  \/ replace_all_uses

SpecRewrite == Init /\ [][NextRewrite]_vars

-----------------------------------------------------------------------------
(* Vocabulary of the properties.                                           *)

\* The shape and the type handle of a node's result.
resultType(i) == nodes[i].type
resultDims(i) == types[nodes[i].type].dims
dimsOf(ref) == types[getType(ref)].dims

RECURSIVE product(_)
product(dims) == IF dims = << >> THEN 1 ELSE Head(dims) * product(Tail(dims))

\* shuffle is a permutation of [0 .. rank-1].
IsPermutation(shuffle, rank) ==
  /\ Len(shuffle) = rank
  /\ {shuffle[a] : a \in 1..rank} = 0..(rank - 1)

NodesOfKind(kind) == {i \in 1..Len(nodes) : getKind(nodes[i]) = kind}

PointwiseKinds ==
  {"ReluInstKind", "SigmoidInstKind", "TanhInstKind", "SoftMaxInstKind",
   "RegressionInstKind", "BatchNormalizationInstKind",
   "LocalResponseNormalizationInstKind"}

\* The inputs src of a concat along axis dim (counted from 0) have one rank
\* and agree on every other axis.
ConcatInputsAgree(src, dim) ==
  \A p \in 1..Len(src) :
    /\ Len(dimsOf(src[p])) = Len(dimsOf(src[1]))
    /\ \A a \in 1..Len(dimsOf(src[1])) :
         a # dim + 1 => dimsOf(src[p])[a] = dimsOf(src[1])[a]

\* Two inputs of src carry different extents on an axis other than dim.
ConcatInputsDisagree(src, dim) ==
  \E p \in 1..Len(src), a \in 1..Len(dimsOf(src[1])) :
    /\ a # dim + 1
    /\ a <= Len(dimsOf(src[p]))
    /\ dimsOf(src[p])[a] # dimsOf(src[1])[a]

-----------------------------------------------------------------------------
(* The properties.                                                         *)

\* C1: every Transpose node whose shuffle is a permutation of [0 .. rank-1]
\* has the input's dims permuted by shuffle as its result shape:
\* result.dims[i] = input.dims[shuffle[i]] for every axis i.
C1_TransposeResultPermuted ==
  \A i \in NodesOfKind("TransposeInstKind") :
    LET d == dimsOf(getInput(nodes[i]))
        shuffle == getShuffle(nodes[i])
    IN IsPermutation(shuffle, Len(d)) =>
         resultDims(i) = [a \in 1..Len(d) |-> d[shuffle[a] + 1]]

\* C2: every Reshape node that exists has a dims attribute whose product of
\* extents equals the product of its input's extents (a construction that
\* would break this fails and leaves no node).
C2_ReshapePreservesProduct ==
  \A i \in NodesOfKind("ReshapeInstKind") :
    product(getDims(nodes[i])) = product(dimsOf(getInput(nodes[i])))

\* C3: every Arithmetic node that exists has equal LHS, RHS and result types
\* (a construction with differing operand types fails and leaves no node).
C3_ArithmeticTypesEqual ==
  \A i \in NodesOfKind("ArithmeticInstKind") :
    /\ getType(getLHS(nodes[i])) = getType(getRHS(nodes[i]))
    /\ resultType(i) = getType(getLHS(nodes[i]))

\* C4: every Convolution node built from an input of shape [N,H,W,C_in] with
\* attributes kernel, stride, pad and depth has the result shape
\* [N, (H + 2*pad - kernel)/stride + 1, (W + 2*pad - kernel)/stride + 1, depth].
C4_ConvolutionResultShape ==
  \A i \in NodesOfKind("ConvolutionInstKind") :
    LET n == nodes[i]
        d == dimsOf(getInput(n))
    IN /\ Len(d) = 4
       /\ resultDims(i) =
            <<d[1],
              (d[2] + 2 * getPad(n) - getKernel(n)) \div getStride(n) + 1,
              (d[3] + 2 * getPad(n) - getKernel(n)) \div getStride(n) + 1,
              getDepth(n)>>

\* A convolution with stride 2 and no padding halved its input's extents.
C4_Witness ==
  \E i \in NodesOfKind("ConvolutionInstKind") :
    /\ getStride(nodes[i]) = 2
    /\ getPad(nodes[i]) = 0
    /\ resultDims(i)[2] * 2 = dimsOf(getInput(nodes[i]))[2]

\* C5: a Concat node exists only over a non-empty input sequence whose inputs
\* have equal rank and equal extents on every axis other than dim; its result
\* shape is an input's shape with the extent on dim replaced by the sum of the
\* inputs' extents on dim; and a call whose inputs disagree on another axis
\* fails with ShapeMismatch.
C5_ConcatShape ==
  /\ \A i \in NodesOfKind("ConcatInstKind") :
       LET src == getInputs(nodes[i])
           dim == getDim(nodes[i])
       IN /\ Len(src) >= 1
          /\ dim < Len(dimsOf(src[1]))
          /\ ConcatInputsAgree(src, dim)
          /\ resultDims(i) =
               [dimsOf(src[1]) EXCEPT ![dim + 1] = sumExtents(src, dim + 1, 1)]
  /\ (last.op = "ConcatNode" /\ ConcatInputsDisagree(last.src, last.dim)) =>
       /\ last.err = "ShapeMismatch"
       /\ \A i \in NodesOfKind("ConcatInstKind") :
            ~(given[i].src = last.src /\ given[i].dim = last.dim)

\* A concat just joined two inputs of different extents on its axis.
C5_Witness ==
  /\ last.op = "ConcatNode"
  /\ last.err = "None"
  /\ Len(last.src) = 2
  /\ dimsOf(last.src[1])[last.dim + 1] # dimsOf(last.src[2])[last.dim + 1]
  /\ getInputs(nodes[Len(nodes)]) = last.src

C7_PointwiseResultType ==
  \A i \in 1..Len(nodes) :
    getKind(nodes[i]) \in PointwiseKinds =>
      /\ resultType(i) = getType(getInput(nodes[i]))
      /\ \A j \in NodesOfKind(getKind(nodes[i])) :
           getInput(nodes[j]) = getInput(nodes[i]) => resultType(j) = resultType(i)

\* A batch normalization whose scale operand has another type than its input.
C7_Witness ==
  \E i \in NodesOfKind("BatchNormalizationInstKind") :
    getType(getScale(nodes[i])) # getType(getInput(nodes[i]))

\* C8: with the test the three classes without a classof inherit, whatever it
\* is, the is-a test for every class K is true of a node exactly when the node
\* was constructed as K.
C8_IsaExactlyConstructedClass ==
  \E inherited \in SUBSET Kinds :
    \A i \in 1..Len(nodes), K \in Classes :
      isa(K, nodes[i], inherited) <=> given[i].op = K

\* C9: every operand of every node refers to a node constructed earlier than
\* the node itself.
C9_OperandsConstructedEarlier ==
  \A i \in 1..Len(nodes) : \A o \in operands(nodes[i]) : o \in 1..(i - 1)

\* C10: the operand getters of every node return the nodes its constructor
\* was given, operand by operand.
C10_GettersReturnGiven ==
  \A i \in 1..Len(nodes) : operandList(nodes[i]) = givenList(given[i])

====
